---- MODULE Spec2Model ----
(***************************************************************************)
(* Model of the lattice layer of the retroreflector CAD generator:         *)
(*   geometry_clip.py    pattern_bounding_box_xy, _bbox_contains,          *)
(*                       _bbox_intersects, clip_pattern_only_outer_cubes,  *)
(*                       make_substrate_from_pattern_xy                    *)
(*   pattern_assembly.py make_nrow_compound, make_pattern_assembly,        *)
(*                       add_substrate, add_frame_around_pattern           *)
(*   geometry.py         generate_rectangle                                *)
(*   cad_export.py       _validate_step_path, export_step, export_mesh     *)
(*                                                                         *)
(* Lengths are integers on a grid (one grid step is an arbitrary length    *)
(* unit), so that every float expression of the source is exact.  The      *)
(* clip box, whose centre is 0.5*(min+max), is kept in HALF grid steps     *)
(* (all its coordinates are doubled) so that the halving stays integral.   *)
(* A solid is modelled by its axis aligned bounding box; the kernel's      *)
(* boolean results are opaque and only recorded as "clipped".              *)
(***************************************************************************)
EXTENDS Integers, Sequences, FiniteSets

\* ---------------------------------------------------------------- bounds
MaxNx == 4
MaxNy == 5
MaxPitch == 2

\* ---------------------------------------------------------------- inputs
NxSet == -1 .. MaxNx
NySet == -1 .. MaxNy
PitchSet == -1 .. MaxPitch
Dx0Set == {-3, -1, 0, 1}
BlockRowsSet == -1 .. (MaxNy + 1)

VARIABLES
    op,             \* the function being run
    pc,             \* position inside it
    nx, ny, dx, dy, dx0,        \* lattice arguments
    block_rows,     \* make_pattern_assembly argument
    exc,            \* "none", or the exception that ended the call
    ret,            \* <<>> until the call returns, then <<value>>
    assy,           \* <<>> while no Assembly exists, else <<leaves>>
    protos,         \* compounds built by make_nrow_compound, in build order
    b,              \* loop index of the block loop
    cube,           \* bounding box of the base cell passed to the clipper
    margin_x, margin_y, z_height, z_center,     \* clipper arguments
    bbox_bb,        \* <<>> until built, then <<bounding box of the clip box>>
    i, j,           \* column and row of the clipper's loops
    kept,           \* shapes kept so far, in append order
    clipped_count,  \* the clipper's own counter
    intersect_calls,    \* calls of Workplane.intersect made so far
    prev,           \* <<>>, or <<result, base box>> of the clipper's last pass
    thickness, margin, clearance, edge_length_mm, z_offset,
                    \* arguments of the substrate and frame generators
    filepath, overwrite, obj,   \* arguments of the exporters
    fs              \* the part of the file system an export can touch:
                    \* what is at the destination path, whether its parent
                    \* directory exists, directories made, files written

lattice == <<nx, ny, dx, dy, dx0>>
asmVars == <<block_rows, assy, protos, b>>
clipArgs == <<cube, margin_x, margin_y, z_height, z_center>>
clipVars == <<bbox_bb, i, j, kept, clipped_count, intersect_calls, prev>>
auxVars == <<thickness, margin, clearance, edge_length_mm, z_offset>>
expVars == <<filepath, overwrite, obj, fs>>
vars == <<op, pc, lattice, exc, ret, asmVars, clipArgs, clipVars, auxVars,
          expVars>>

Min(x, y) == IF x <= y THEN x ELSE y
Max(x, y) == IF x >= y THEN x ELSE y

\* ------------------------------------------------- geometry_clip.py 14-34
Raise(e) == [exc |-> e, val |-> <<>>]
Return(v) == [exc |-> "none", val |-> <<v>>]

PatternBBox(xmin, xmax, ymin, ymax) ==
    [xmin |-> xmin, xmax |-> xmax, ymin |-> ymin, ymax |-> ymax]

pattern_bounding_box_xy_noRowTest(a_nx, a_ny, a_dx, a_dy, a_dx0) ==
    IF a_nx <= 0 \/ a_ny <= 0 THEN Raise("ValueError")
    ELSE IF a_dx <= 0 \/ a_dy <= 0 THEN Raise("ValueError")
    ELSE LET x0 == 0
             x1 == (a_nx - 1) * a_dx
         IN Return(PatternBBox(Min(x0, a_dx0), Max(x1, x1 + a_dx0),
                               0, (a_ny - 1) * a_dy))

pattern_bounding_box_xy(a_nx, a_ny, a_dx, a_dy, a_dx0) ==
    IF a_nx <= 0 \/ a_ny <= 0 THEN Raise("ValueError")
    ELSE IF a_dx <= 0 \/ a_dy <= 0 THEN Raise("ValueError")
    ELSE LET x0 == 0
             x1 == (a_nx - 1) * a_dx
             x0_odd == a_dx0
             x1_odd == (a_nx - 1) * a_dx + a_dx0
             xmin == IF a_ny >= 2 THEN Min(x0, x0_odd) ELSE x0
             xmax == IF a_ny >= 2 THEN Max(x1, x1_odd) ELSE x1
             ymin == 0
             ymax == (a_ny - 1) * a_dy
         IN Return(PatternBBox(xmin, xmax, ymin, ymax))

\* ------------------------------------------------------ geometry.py 9-30
\* Bounding boxes of solids are records of six bounds.
BoundBox(xmin, xmax, ymin, ymax, zmin, zmax) ==
    [xmin |-> xmin, xmax |-> xmax, ymin |-> ymin, ymax |-> ymax,
     zmin |-> zmin, zmax |-> zmax]

\* box(a, b, c) is centred at the origin: it spans -a/2 .. a/2, which is
\* -a .. a in half grid steps
generate_rectangle(a, b_, c) ==
    IF a <= 0 \/ b_ <= 0 \/ c <= 0 THEN Raise("ValueError")
    ELSE Return(BoundBox(-a, a, -b_, b_, -c, c))

\* Workplane.translate, the vector given in half grid steps
translate(bb, vx, vy, vz) ==
    BoundBox(bb.xmin + vx, bb.xmax + vx, bb.ymin + vy, bb.ymax + vy,
             bb.zmin + vz, bb.zmax + vz)

\* the clipper's idle state, for the specifications that do not run it
NoCube == BoundBox(0, 0, 0, 0, 0, 0)

ClipIdle ==
    /\ cube = NoCube
    /\ margin_x = 0 /\ margin_y = 0 /\ z_height = 0 /\ z_center = 0
    /\ bbox_bb = <<>> /\ i = 0 /\ j = 0 /\ kept = <<>>
    /\ clipped_count = 0 /\ intersect_calls = 0
    /\ prev = <<>>

\* the generators' and the exporters' idle state, likewise
AuxIdle ==
    /\ thickness = 0 /\ margin = 0 /\ clearance = 0
    /\ edge_length_mm = 0 /\ z_offset = 0

NoPath == [none |-> TRUE, has_name |-> FALSE, suffix |-> ""]

NoFiles == [target |-> "absent", parent |-> FALSE, made |-> 0, writes |-> 0]

ExpIdle ==
    /\ filepath = NoPath /\ overwrite = FALSE /\ obj = "None"
    /\ fs = NoFiles

\* ---------------------------------------------- pattern_assembly.py 5-41
\* A compound is the list of its cell translations, in append order.
CellAt_rowParityOnly(k, a_nx, a_dx, a_dy, a_dx0, parity) ==
    LET r == (k - 1) \div a_nx
        col == (k - 1) % a_nx
        x_off == IF r % 2 = 1 THEN a_dx0 ELSE 0
    IN <<col * a_dx + x_off, r * a_dy, 0>>

CellAt(k, a_nx, a_dx, a_dy, a_dx0, parity) ==
    LET r == (k - 1) \div a_nx
        col == (k - 1) % a_nx
        x_off == IF (parity + r) % 2 = 1 THEN a_dx0 ELSE 0
    IN <<col * a_dx + x_off, r * a_dy, 0>>

make_nrow_compound(a_nx, nrows, a_dx, a_dy, a_dx0, row_start_parity) ==
    IF a_nx <= 0 \/ nrows <= 0 THEN Raise("ValueError")
    ELSE IF a_dx <= 0 \/ a_dy <= 0 THEN Raise("ValueError")
    ELSE IF row_start_parity \notin {0, 1} THEN Raise("ValueError")
    ELSE Return([nrows |-> nrows,
                 row_start_parity |-> row_start_parity,
                 solids |-> [k \in 1 .. (a_nx * nrows) |->
                     CellAt(k, a_nx, a_dx, a_dy, a_dx0, row_start_parity)]])

\* -------------------------------------------- pattern_assembly.py 90-157
block_rows_ok_inclusive(a_block_rows, a_ny) ==
    1 <= a_block_rows /\ a_block_rows <= a_ny

block_rows_ok(a_block_rows, a_ny) ==
    1 <= a_block_rows /\ a_block_rows < a_ny

full_blocks_roundUp(a_ny, a_block_rows) ==
    (a_ny + a_block_rows - 1) \div a_block_rows

full_blocks(a_ny, a_block_rows) == a_ny \div a_block_rows

rem(a_ny, a_block_rows) == a_ny % a_block_rows

\* position in protos of block_even (1) and block_odd (2)
block_for_perBlock(start_row) == start_row + 1

block_for(start_row) == IF start_row % 2 = 1 THEN 2 ELSE 1

Location(x, y, z) == [t |-> <<x, y, z>>, rotated |-> FALSE]

Leaf(name, proto, loc) == [name |-> name, proto |-> proto, loc |-> loc]

leaves == assy[1]

AsmOp == op = "make_pattern_assembly"

AsmValidate ==
    /\ AsmOp /\ pc = "start"
    /\ IF nx <= 0 \/ ny <= 0 \/ dx <= 0 \/ dy <= 0
          \/ ~block_rows_ok(block_rows, ny)
       THEN /\ exc' = "ValueError" /\ pc' = "raised"
            /\ UNCHANGED assy
       ELSE /\ assy' = << <<>> >>
            /\ pc' = "block_even"
            /\ UNCHANGED exc
    /\ UNCHANGED <<op, lattice, block_rows, ret, protos, b, clipArgs, auxVars, expVars, clipVars>>

AsmBuildProto(at, parity, next) ==
    /\ AsmOp /\ pc = at
    /\ LET r == make_nrow_compound(nx, block_rows, dx, dy, dx0, parity)
       IN IF r.exc = "none"
          THEN /\ protos' = Append(protos, r.val[1])
               /\ pc' = next
               /\ UNCHANGED exc
          ELSE /\ exc' = r.exc /\ pc' = "raised"
               /\ UNCHANGED protos
    /\ b' = 0
    /\ UNCHANGED <<op, lattice, block_rows, ret, assy, clipArgs, auxVars, expVars, clipVars>>

AsmBlockEven == AsmBuildProto("block_even", 0, "block_odd")

AsmBlockOdd == AsmBuildProto("block_odd", 1, "loop")

AsmAddBlock ==
    /\ AsmOp /\ pc = "loop"
    /\ b < full_blocks(ny, block_rows)
    /\ LET start_row == b * block_rows
           y_off == start_row * dy
       IN assy' = <<Append(leaves,
                      Leaf(<<"block", b>>, block_for(start_row),
                           Location(0, y_off, 0)))>>
    /\ b' = b + 1
    /\ UNCHANGED <<op, pc, lattice, block_rows, exc, ret, protos, clipArgs, auxVars, expVars, clipVars>>

AsmTail ==
    /\ AsmOp /\ pc = "loop"
    /\ b = full_blocks(ny, block_rows)
    /\ rem(ny, block_rows) # 0
    /\ LET start_row == full_blocks(ny, block_rows) * block_rows
           parity == start_row % 2
           r == make_nrow_compound(nx, rem(ny, block_rows), dx, dy, dx0, parity)
       IN IF r.exc = "none"
          THEN /\ protos' = Append(protos, r.val[1])
               /\ assy' = <<Append(leaves,
                               Leaf(<<"tail">>, Len(protos) + 1,
                                    Location(0, start_row * dy, 0)))>>
               /\ pc' = "return"
               /\ UNCHANGED exc
          ELSE /\ exc' = r.exc /\ pc' = "raised"
               /\ UNCHANGED <<protos, assy>>
    /\ UNCHANGED <<op, lattice, block_rows, ret, b, clipArgs, auxVars, expVars, clipVars>>

AsmReturn ==
    /\ AsmOp
    /\ \/ pc = "return"
       \/ pc = "loop" /\ b = full_blocks(ny, block_rows)
                      /\ rem(ny, block_rows) = 0
    /\ ret' = <<leaves>>
    /\ pc' = "done"
    /\ UNCHANGED <<op, lattice, exc, asmVars, clipArgs, auxVars, expVars, clipVars>>

InitAsm ==
    /\ op = "make_pattern_assembly"
    /\ pc = "start"
    /\ nx \in NxSet /\ ny \in NySet
    /\ dx \in PitchSet /\ dy \in PitchSet
    /\ dx0 \in Dx0Set
    /\ block_rows \in BlockRowsSet
    /\ exc = "none" /\ ret = <<>>
    /\ assy = <<>> /\ protos = <<>> /\ b = 0
    /\ ClipIdle /\ AuxIdle /\ ExpIdle

NextAsm ==
    \/ AsmValidate
    \/ AsmBlockEven
    \/ AsmBlockOdd
    \/ AsmAddBlock
    \/ AsmTail
    \/ AsmReturn

SpecAsm == InitAsm /\ [][NextAsm]_vars

\* Assembly.toCompound(): every cell of every leaf, the leaf's location
\* applied to the cell's own translation
Moved(cell, loc) ==
    <<cell[1] + loc.t[1], cell[2] + loc.t[2], cell[3] + loc.t[3]>>

LeafCells(leaf) ==
    [k \in 1 .. Len(protos[leaf.proto].solids) |->
        Moved(protos[leaf.proto].solids[k], leaf.loc)]

RECURSIVE Flatten(_)
Flatten(ls) ==
    IF ls = <<>> THEN <<>>
    ELSE Flatten(SubSeq(ls, 1, Len(ls) - 1)) \o LeafCells(ls[Len(ls)])

\* the single staggering rule (spec 3, CellPlacement)
CellPlacement(col, row) ==
    <<col * dx + (IF row % 2 = 1 THEN dx0 ELSE 0), row * dy, 0>>

AsmDone == AsmOp /\ pc = "done"

\* C2: the flattened Assembly holds exactly one cell at CellPlacement(i,j)
\* for every 0<=i<nx, 0<=j<ny, and nothing else.
C2_FlattenIsLattice ==
    AsmDone =>
        LET F == Flatten(ret[1])
        IN /\ Len(F) = nx * ny
           /\ \A col \in 0 .. (nx - 1), row \in 0 .. (ny - 1) :
                 Cardinality({k \in 1 .. Len(F) :
                                 F[k] = CellPlacement(col, row)}) = 1
           /\ \A k \in 1 .. Len(F) :
                 \E col \in 0 .. (nx - 1), row \in 0 .. (ny - 1) :
                    F[k] = CellPlacement(col, row)

\* a staggered lattice assembled from odd-sized blocks (so that odd-start
\* blocks are placed) with a remainder block has been returned
C2_Witness ==
    /\ AsmDone /\ nx = 2 /\ ny = 5 /\ block_rows = 3 /\ dx0 = 1
    /\ Len(ret[1]) = 2
    /\ Len(Flatten(ret[1])) = 10

\* C3: one call builds at most 3 prototype compounds whatever ny is, and
\* every leaf of the Assembly references one of the compounds built, with
\* a location that is a pure translation.
C3_AtMostThreePrototypes ==
    AsmOp =>
        /\ Len(protos) <= 3
        /\ (assy # <<>> =>
              \A k \in 1 .. Len(leaves) :
                 /\ leaves[k].proto \in 1 .. Len(protos)
                 /\ ~leaves[k].loc.rotated)
        /\ (pc = "done" =>
              Len(protos) = 2 + (IF ny % block_rows # 0 THEN 1 ELSE 0))

\* five single-row blocks were placed from the two full-size prototypes,
\* the odd-start one among them
C3_Witness ==
    /\ AsmDone /\ ny = 5 /\ block_rows = 1
    /\ Len(leaves) = 5 /\ Len(protos) = 2
    /\ leaves[4].proto = 2

\* C4: the Assembly holds ny div blockRows full-block leaves, leaf b at
\* (0, b*blockRows*dy, 0) referencing the odd-start prototype iff
\* b*blockRows is odd, followed by one remainder leaf of ny mod blockRows
\* rows at (0, (ny div blockRows)*blockRows*dy, 0) iff ny mod blockRows # 0.
C4_LeafLayout ==
    AsmDone =>
        LET L == ret[1]
            nfull == ny \div block_rows
            nrem == ny % block_rows
        IN /\ Len(L) = nfull + (IF nrem # 0 THEN 1 ELSE 0)
           /\ \A k \in 0 .. (nfull - 1) :
                 /\ L[k + 1].name = <<"block", k>>
                 /\ L[k + 1].loc.t = <<0, k * block_rows * dy, 0>>
                 /\ protos[L[k + 1].proto].nrows = block_rows
                 /\ (protos[L[k + 1].proto].row_start_parity = 1
                        <=> (k * block_rows) % 2 = 1)
           /\ (nrem # 0 =>
                 /\ L[nfull + 1].name = <<"tail">>
                 /\ L[nfull + 1].loc.t = <<0, nfull * block_rows * dy, 0>>
                 /\ protos[L[nfull + 1].proto].nrows = nrem)

\* scenario C: blockRows = 2, ny = 5 gave 2 full-block leaves and a tail
C4_Witness ==
    /\ AsmDone /\ ny = 5 /\ block_rows = 2 /\ dy = 2
    /\ Len(ret[1]) = 3
    /\ ret[1][3].name = <<"tail">>
    /\ ret[1][3].loc.t = <<0, 8, 0>>

\* C5: with valid nx, ny, dx, dy the call raises ValueError exactly when
\* blockRows < 1 or blockRows >= ny, and it raises before any prototype is
\* built and before the Assembly is created.
C5_BlockRowsRejected ==
    (AsmOp /\ pc # "start") =>
        /\ (nx > 0 /\ ny > 0 /\ dx > 0 /\ dy > 0) =>
              (exc = "ValueError" <=> (block_rows < 1 \/ block_rows >= ny))
        /\ (exc # "none" => pc = "raised" /\ assy = <<>> /\ protos = <<>>
                                         /\ ret = <<>>)

\* blockRows = ny was rejected on an otherwise valid lattice
C5_Witness ==
    /\ AsmOp /\ pc = "raised" /\ exc = "ValueError"
    /\ nx = 2 /\ ny = 3 /\ dx = 1 /\ dy = 1 /\ block_rows = 3
    /\ assy = <<>>

\* --------------------------------------------- specification of one call
\* of pattern_bounding_box_xy on arbitrary arguments
InitBBox ==
    /\ op = "pattern_bounding_box_xy"
    /\ pc = "call"
    /\ nx \in NxSet /\ ny \in NySet
    /\ dx \in PitchSet /\ dy \in PitchSet
    /\ dx0 \in Dx0Set
    /\ block_rows = 0
    /\ exc = "none" /\ ret = <<>>
    /\ assy = <<>> /\ protos = <<>> /\ b = 0
    /\ ClipIdle /\ AuxIdle /\ ExpIdle

CallBBox ==
    /\ op = "pattern_bounding_box_xy" /\ pc = "call"
    /\ LET r == pattern_bounding_box_xy(nx, ny, dx, dy, dx0)
       IN /\ exc' = r.exc
          /\ ret' = r.val
          /\ pc' = IF r.exc = "none" THEN "done" ELSE "raised"
    /\ UNCHANGED <<op, lattice, asmVars, clipArgs, auxVars, expVars, clipVars>>

NextBBox == CallBBox
SpecBBox == InitBBox /\ [][NextBBox]_vars

\* C1: for nx,ny,dx,dy > 0 and any dx0 the returned box is
\* x = [min(0,dx0), max((nx-1)dx, (nx-1)dx+dx0)] when ny >= 2 and
\* x = [0, (nx-1)dx] when ny = 1, y = [0, (ny-1)dy]; for a non-positive
\* nx, ny, dx or dy the call raises ValueError and returns no box.
C1_Footprint ==
    (op = "pattern_bounding_box_xy" /\ pc # "call") =>
        IF nx > 0 /\ ny > 0 /\ dx > 0 /\ dy > 0
        THEN /\ pc = "done" /\ exc = "none" /\ Len(ret) = 1
             /\ ret[1].ymin = 0
             /\ ret[1].ymax = (ny - 1) * dy
             /\ (ny >= 2 =>
                    /\ (dx0 <= 0 => ret[1].xmin = dx0)
                    /\ (dx0 >= 0 => ret[1].xmin = 0)
                    /\ (dx0 <= 0 => ret[1].xmax = (nx - 1) * dx)
                    /\ (dx0 >= 0 => ret[1].xmax = (nx - 1) * dx + dx0))
             /\ (ny = 1 =>
                    /\ ret[1].xmin = 0
                    /\ ret[1].xmax = (nx - 1) * dx)
        ELSE pc = "raised" /\ exc = "ValueError" /\ ret = <<>>

\* a single-row call with a non-zero stagger has returned its box
C1_Witness ==
    /\ op = "pattern_bounding_box_xy" /\ pc = "done"
    /\ ny = 1 /\ nx = 3 /\ dx0 = -1 /\ dx = 2
    /\ ret[1].xmin = 0 /\ ret[1].xmax = 4

\* ----------------------------------------------- geometry_clip.py 68-80
bbox_contains_xyOnly(bb_outer, bb_inner) ==
    /\ bb_inner.xmin >= bb_outer.xmin /\ bb_inner.xmax <= bb_outer.xmax
    /\ bb_inner.ymin >= bb_outer.ymin /\ bb_inner.ymax <= bb_outer.ymax

bbox_contains_strict(bb_outer, bb_inner) ==
    /\ bb_inner.xmin > bb_outer.xmin /\ bb_inner.xmax < bb_outer.xmax
    /\ bb_inner.ymin > bb_outer.ymin /\ bb_inner.ymax < bb_outer.ymax
    /\ bb_inner.zmin > bb_outer.zmin /\ bb_inner.zmax < bb_outer.zmax

bbox_contains(bb_outer, bb_inner) ==
    /\ bb_inner.xmin >= bb_outer.xmin /\ bb_inner.xmax <= bb_outer.xmax
    /\ bb_inner.ymin >= bb_outer.ymin /\ bb_inner.ymax <= bb_outer.ymax
    /\ bb_inner.zmin >= bb_outer.zmin /\ bb_inner.zmax <= bb_outer.zmax

bbox_intersects_open(p, q) ==
    ~ \/ p.xmax <= q.xmin \/ p.xmin >= q.xmax
      \/ p.ymax <= q.ymin \/ p.ymin >= q.ymax
      \/ p.zmax <= q.zmin \/ p.zmin >= q.zmax

bbox_intersects(p, q) ==
    ~ \/ p.xmax < q.xmin \/ p.xmin > q.xmax
      \/ p.ymax < q.ymin \/ p.ymin > q.ymax
      \/ p.zmax < q.zmin \/ p.zmin > q.zmax

\* --------------------------------------------- geometry_clip.py 162-220
\* xmin, xmax, ymin, ymax of the clip box (grid steps)
clip_bounds_noMargin(bb_xy, a_margin_x, a_margin_y) ==
    PatternBBox(bb_xy.xmin, bb_xy.xmax, bb_xy.ymin, bb_xy.ymax)

clip_bounds_inward(bb_xy, a_margin_x, a_margin_y) ==
    PatternBBox(bb_xy.xmin + a_margin_x, bb_xy.xmax - a_margin_x,
                bb_xy.ymin + a_margin_y, bb_xy.ymax - a_margin_y)

clip_bounds(bb_xy, a_margin_x, a_margin_y) ==
    PatternBBox(bb_xy.xmin - a_margin_x, bb_xy.xmax + a_margin_x,
                bb_xy.ymin - a_margin_y, bb_xy.ymax + a_margin_y)

\* bounding box of the clip solid (half grid steps): a box of the clip
\* bounds' size, moved to their centre
clip_box(bb_xy, a_margin_x, a_margin_y, a_z_height, a_z_center) ==
    LET cb == clip_bounds(bb_xy, a_margin_x, a_margin_y)
        cx2 == cb.xmin + cb.xmax
        cy2 == cb.ymin + cb.ymax
        r == generate_rectangle(cb.xmax - cb.xmin, cb.ymax - cb.ymin,
                                a_z_height)
    IN IF r.exc # "none" THEN r
       ELSE Return(translate(r.val[1], cx2, cy2, 2 * a_z_center))

\* bounding box (half grid steps) of base.moved(Location(Vector(x, y, 0)))
moved_bb(base, x, y) ==
    BoundBox(2 * (base.xmin + x), 2 * (base.xmax + x),
             2 * (base.ymin + y), 2 * (base.ymax + y),
             2 * base.zmin, 2 * base.zmax)

Shape(kind, x, y) == [kind |-> kind, at |-> <<x, y, 0>>]

\* kept.append(shape)
keep_front(seq, shape) == <<shape>> \o seq

keep(seq, shape) == Append(seq, shape)

ClipOp == op = "clip_pattern_only_outer_cubes"

ClipStart ==
    /\ ClipOp /\ pc = "start"
    /\ IF nx <= 0 \/ ny <= 0 \/ dx <= 0 \/ dy <= 0 \/ z_height <= 0
       THEN /\ exc' = "ValueError" /\ pc' = "raised"
            /\ UNCHANGED bbox_bb
       ELSE LET bb_xy == pattern_bounding_box_xy(nx, ny, dx, dy, dx0)
                r == IF bb_xy.exc # "none" THEN bb_xy
                     ELSE clip_box(bb_xy.val[1], margin_x, margin_y,
                                   z_height, z_center)
            IN IF r.exc # "none"
               THEN /\ exc' = r.exc /\ pc' = "raised"
                    /\ UNCHANGED bbox_bb
               ELSE /\ bbox_bb' = r.val
                    /\ pc' = "loop"
                    /\ UNCHANGED exc
    /\ UNCHANGED <<op, lattice, ret, asmVars, clipArgs, auxVars, expVars,
                   i, j, kept, clipped_count, intersect_calls, prev>>

\* one pass of the inner loop body, for the cell (i, j)
ClipCell ==
    /\ ClipOp /\ pc = "loop" /\ j < ny
    /\ LET y == j * dy
           x_off == IF j % 2 = 1 THEN dx0 ELSE 0
           x == i * dx + x_off
           inst_bb == moved_bb(cube, x, y)
       IN IF bbox_contains(bbox_bb[1], inst_bb)
          THEN /\ kept' = keep(kept, Shape("inst", x, y))
               /\ UNCHANGED <<clipped_count, intersect_calls>>
          ELSE IF ~bbox_intersects(bbox_bb[1], inst_bb)
          THEN UNCHANGED <<kept, clipped_count, intersect_calls>>
          ELSE /\ intersect_calls' = intersect_calls + 1
               /\ kept' = keep(kept, Shape("clipped", x, y))
               /\ clipped_count' = clipped_count + 1
    /\ IF i + 1 < nx
       THEN i' = i + 1 /\ j' = j
       ELSE i' = 0 /\ j' = j + 1
    /\ UNCHANGED <<op, pc, lattice, exc, ret, asmVars, clipArgs, auxVars,
                   expVars, bbox_bb, prev>>

ClipReturn ==
    /\ ClipOp /\ pc = "loop" /\ j = ny
    /\ ret' = <<kept>>
    /\ pc' = "done"
    /\ UNCHANGED <<op, lattice, exc, asmVars, clipArgs, auxVars, expVars, clipVars>>

\* Workplane.val(): the first object of the stack
val_last(stack) == stack[Len(stack)]

val(stack) == stack[1]

\* bounding box (grid steps) of an unmodified shape cut from base
shape_bb(base, shape) ==
    BoundBox(base.xmin + shape.at[1], base.xmax + shape.at[1],
             base.ymin + shape.at[2], base.ymax + shape.at[2],
             base.zmin + shape.at[3], base.zmax + shape.at[3])

\* The returned Workplane is passed as cube to a second call with the same
\* lattice and clip box arguments.  Only an unmodified first shape has a
\* known bounding box, so only such results are clipped again.
ClipAgain ==
    /\ ClipOp /\ pc = "done" /\ prev = <<>>
    /\ ret[1] # <<>>
    /\ val(ret[1]).kind = "inst"
    /\ cube' = shape_bb(cube, val(ret[1]))
    /\ prev' = <<ret[1], cube>>
    /\ pc' = "start"
    /\ ret' = <<>> /\ bbox_bb' = <<>> /\ kept' = <<>>
    /\ i' = 0 /\ j' = 0 /\ clipped_count' = 0 /\ intersect_calls' = 0
    /\ UNCHANGED <<op, lattice, exc, asmVars, margin_x, margin_y, z_height,
                   z_center, auxVars, expVars>>

\* base cells: a small and a large cell around the origin, and a cell
\* that does not contain the origin
CubeSet ==
    { BoundBox(-1, 1, -1, 1, -1, 1),
      BoundBox(-2, 2, -2, 2, -1, 1),
      BoundBox(1, 3, -1, 1, -1, 1) }

\* <<margin_x, margin_y>>: equal margins, negative to positive, and some
\* unequal pairs
MarginSet ==
    { <<m, m>> : m \in -2 .. 2 } \cup
    { <<0, 2>>, <<2, 0>>, <<-1, -2>>, <<-2, -1>>, <<1, -1>> }

\* <<z_height, z_center>>: rejected, covering the cells, cutting them,
\* touching their top face
ZSet == { <<0, 0>>, <<4, 0>>, <<2, 1>>, <<2, 2>> }

InitClip ==
    /\ op = "clip_pattern_only_outer_cubes"
    /\ pc = "start"
    /\ nx \in 0 .. MaxNx /\ ny \in 0 .. MaxNy
    /\ dx \in 0 .. MaxPitch /\ dy \in 0 .. MaxPitch
    /\ dx0 \in Dx0Set
    /\ cube \in CubeSet
    /\ \E m \in MarginSet : margin_x = m[1] /\ margin_y = m[2]
    /\ \E z \in ZSet : z_height = z[1] /\ z_center = z[2]
    /\ exc = "none" /\ ret = <<>>
    /\ block_rows = 0 /\ assy = <<>> /\ protos = <<>> /\ b = 0
    /\ bbox_bb = <<>> /\ i = 0 /\ j = 0 /\ kept = <<>>
    /\ clipped_count = 0 /\ intersect_calls = 0
    /\ prev = <<>>
    /\ AuxIdle /\ ExpIdle

NextClip ==
    \/ ClipStart
    \/ ClipCell
    \/ ClipReturn

SpecClip == InitClip /\ [][NextClip]_vars

\* the clipper run on the lattice, then once more on its own result
NextReclip ==
    \/ ClipStart
    \/ ClipCell
    \/ ClipReturn
    \/ ClipAgain

SpecReclip == InitClip /\ [][NextReclip]_vars

\* ------------------------------------------------ the clipper's claims
ClipDone == ClipOp /\ pc = "done"

Cells == (0 .. (nx - 1)) \X (0 .. (ny - 1))

\* the x, y and z intervals of a bounding box
Axes(bb) == << <<bb.xmin, bb.xmax>>, <<bb.ymin, bb.ymax>>,
               <<bb.zmin, bb.zmax>> >>

CellBB(c) ==
    moved_bb(cube, CellPlacement(c[1], c[2])[1], CellPlacement(c[1], c[2])[2])

\* the cell's box lies within the clip box, faces may coincide
Inside(c) ==
    \A a \in 1 .. 3 :
        /\ Axes(bbox_bb[1])[a][1] <= Axes(CellBB(c))[a][1]
        /\ Axes(CellBB(c))[a][2] <= Axes(bbox_bb[1])[a][2]

\* the two boxes are separated by a gap along some axis
Apart(c) ==
    \E a \in 1 .. 3 :
        \/ Axes(CellBB(c))[a][2] < Axes(bbox_bb[1])[a][1]
        \/ Axes(bbox_bb[1])[a][2] < Axes(CellBB(c))[a][1]

\* the boxes meet, but along some axis only in a single coordinate
TouchOnly(c) ==
    /\ ~Apart(c)
    /\ \E a \in 1 .. 3 :
          \/ Axes(CellBB(c))[a][2] = Axes(bbox_bb[1])[a][1]
          \/ Axes(bbox_bb[1])[a][2] = Axes(CellBB(c))[a][1]

\* a face of the cell's box lies in a face of the clip box
Flush(c) ==
    \E a \in 1 .. 3 :
        \/ Axes(CellBB(c))[a][1] = Axes(bbox_bb[1])[a][1]
        \/ Axes(CellBB(c))[a][2] = Axes(bbox_bb[1])[a][2]

\* where the shapes of each kind in kept are
KeptAt(kind) ==
    {kept[k].at : k \in {n \in DOMAIN kept : kept[n].kind = kind}}

KeptSets == [inst |-> KeptAt("inst"), clipped |-> KeptAt("clipped")]

\* no shape is in kept twice
KeptOnce == Cardinality(KeptAt("inst")) + Cardinality(KeptAt("clipped"))
                = Len(kept)

Pos(c) == CellPlacement(c[1], c[2])

\* what became of the cell c, K being KeptSets
Unmodified(c, K) == Pos(c) \in K.inst /\ Pos(c) \notin K.clipped
Trimmed(c, K) == Pos(c) \notin K.inst /\ Pos(c) \in K.clipped
Dropped(c, K) == Pos(c) \notin K.inst /\ Pos(c) \notin K.clipped

Ring(c) == c[1] = 0 \/ c[1] = nx - 1 \/ c[2] = 0 \/ c[2] = ny - 1

\* the clip box's z range contains the cell's
ZCovers ==
    /\ 2 * z_center - z_height <= 2 * cube.zmin
    /\ 2 * cube.zmax <= 2 * z_center + z_height

\* C6: every cell is in exactly one class, fixed by the two boxes alone:
\* inside the clip box -> kept unmodified, no boolean call; apart from it
\* -> dropped, no boolean call; otherwise -> one boolean intersection and
\* the trimmed shape kept.  The number of boolean calls is the number of
\* cells of the third class.
C6_ThreeClasses ==
    ClipDone =>
        LET K == KeptSets
        IN /\ KeptOnce
           /\ \A c \in Cells :
                 /\ ~(Inside(c) /\ Apart(c))
                 /\ (Inside(c) => Unmodified(c, K))
                 /\ (Apart(c) => Dropped(c, K))
                 /\ (~Inside(c) /\ ~Apart(c) => Trimmed(c, K))
           /\ intersect_calls =
                 Cardinality({c \in Cells : ~Inside(c) /\ ~Apart(c)})
           /\ clipped_count = intersect_calls
           /\ Len(ret[1]) = Cardinality({c \in Cells : ~Apart(c)})

\* a run has ended in which cells of all three classes occurred
C6_Witness ==
    /\ ClipDone
    /\ \E c \in Cells : Inside(c) /\ Unmodified(c, KeptSets)
    /\ \E c \in Cells : Apart(c) /\ Dropped(c, KeptSets)
    /\ intersect_calls = 3

\* C7: the tests are on closed intervals: a cell whose box lies in the
\* clip box with faces coinciding is contained (kept unmodified), and a
\* cell whose box only touches the clip box (no overlap volume) is a
\* boundary candidate: boolean-trimmed and kept, never dropped.
C7_ClosedIntervals ==
    ClipDone =>
        LET K == KeptSets
        IN \A c \in Cells :
              /\ (Inside(c) /\ Flush(c) => Unmodified(c, K))
              /\ (TouchOnly(c) => Trimmed(c, K))

\* a run has ended with a cell flush inside the clip box kept unmodified
\* and a cell touching the clip box from outside trimmed
C7_Witness ==
    /\ ClipDone
    /\ \E c \in Cells : Inside(c) /\ Flush(c) /\ Unmodified(c, KeptSets)
    /\ \E c \in Cells : TouchOnly(c) /\ Trimmed(c, KeptSets)

\* C8 as claimed: with margin_x >= 0, margin_y >= 0 and a z range covering
\* the cell, all nx*ny cells are kept unmodified and no boolean call is made.
C8_Original ==
    (ClipDone /\ margin_x >= 0 /\ margin_y >= 0 /\ ZCovers) =>
        /\ LET K == KeptSets IN \A c \in Cells : Unmodified(c, K)
        /\ Len(ret[1]) = nx * ny
        /\ intersect_calls = 0

\* the margins are at least the cell's overhang beyond its placement point
MarginsCoverCell ==
    /\ margin_x >= cube.xmax /\ margin_x >= -cube.xmin
    /\ margin_y >= cube.ymax /\ margin_y >= -cube.ymin

\* C8 amended: when the margins are at least the cell's overhang beyond its
\* placement point (so that the clip box covers the cells, not only their
\* placement points) and the z range covers the cell, the call succeeds,
\* keeps all nx*ny cells unmodified and makes no boolean call.
C8_CoveringRegion ==
    (ClipOp /\ pc # "start" /\ nx > 0 /\ ny > 0 /\ dx > 0 /\ dy > 0
       /\ z_height > 0 /\ MarginsCoverCell /\ ZCovers) =>
        /\ pc # "raised"
        /\ intersect_calls = 0
        /\ (pc = "done" =>
              /\ LET K == KeptSets IN \A c \in Cells : Unmodified(c, K)
              /\ Len(ret[1]) = nx * ny)

\* a staggered 3 x 3 lattice of large cells was clipped with margins equal
\* to the cells' half size: nine cells kept, none trimmed
C8_Witness ==
    /\ ClipDone /\ MarginsCoverCell /\ ZCovers
    /\ nx = 3 /\ ny = 3 /\ dx0 = 1 /\ cube.xmax = 2 /\ margin_x = 2
    /\ Len(ret[1]) = 9 /\ intersect_calls = 0

\* the cell's box contains the cell's placement point in its interior (x, y)
CubeAroundOrigin ==
    /\ cube.xmin < 0 /\ 0 < cube.xmax
    /\ cube.ymin < 0 /\ 0 < cube.ymax

\* C9 as claimed: with the footprint shrunk by one pitch on all sides
\* (margin_x = -dx, margin_y = -dy) every outer-ring cell is boolean-trimmed,
\* every strictly interior cell is kept unmodified, and the cells outside
\* the region are dropped (the cell around its placement point, the z
\* range covering it).
C9_Original ==
    (ClipDone /\ margin_x = -dx /\ margin_y = -dy /\ CubeAroundOrigin
       /\ ZCovers) =>
        LET K == KeptSets
        IN \A c \in Cells :
              /\ (Ring(c) /\ ~Apart(c) => Trimmed(c, K))
              /\ (~Ring(c) => Unmodified(c, K))
              /\ (Apart(c) => Dropped(c, K))

Abs(x) == IF x < 0 THEN -x ELSE x

\* rows whose placement points are on or outside the y faces of the shrunk
\* region, and columns likewise when the stagger is at most one pitch
EdgeCell(c) ==
    \/ c[2] \in {0, 1, ny - 2, ny - 1}
    \/ (c[1] \in {0, nx - 1} /\ Abs(dx0) <= dx)

\* C9 amended: with margin_x = -dx, margin_y = -dy and a cell whose box
\* contains its placement point in its interior, no cell of rows 0, 1,
\* ny-2, ny-1 (and, when |dx0| <= dx, of columns 0 and nx-1) is kept
\* unmodified: it is boolean-trimmed when its box meets the clip box and
\* dropped otherwise.  Any other cell is kept unmodified exactly when its
\* box lies within the clip box and is boolean-trimmed when it straddles
\* it; a cell whose box lies outside the clip box is dropped.
C9_ShrunkRegion ==
    (ClipDone /\ margin_x = -dx /\ margin_y = -dy /\ CubeAroundOrigin) =>
        LET K == KeptSets
        IN \A c \in Cells :
              /\ (EdgeCell(c) =>
                     /\ ~Unmodified(c, K)
                     /\ (Trimmed(c, K) <=> ~Apart(c))
                     /\ (Dropped(c, K) <=> Apart(c)))
              /\ (~EdgeCell(c) =>
                     /\ (Unmodified(c, K) <=> Inside(c))
                     /\ (Trimmed(c, K) <=> (~Inside(c) /\ ~Apart(c))))
              /\ (Apart(c) => Dropped(c, K))

\* a shrunk-region run has ended in which an outer-ring cell was dropped,
\* a strictly interior cell of row 1 was trimmed and a cell was kept
\* unmodified
C9_Witness ==
    /\ ClipDone /\ margin_x = -dx /\ margin_y = -dy /\ CubeAroundOrigin
    /\ Abs(dx0) <= dx
    /\ \E c \in Cells : Ring(c) /\ Dropped(c, KeptSets)
    /\ \E c \in Cells : ~Ring(c) /\ c[2] = 1 /\ Trimmed(c, KeptSets)
    /\ \E c \in Cells : Unmodified(c, KeptSets)

\* C10 as claimed: for every region, only outer-ring cells are trimmed, so
\* at most 2*nx + 2*ny - 4 boolean intersections are made (nx, ny >= 2).
C10_Original ==
    ClipDone =>
        /\ LET K == KeptSets IN \A c \in Cells : Trimmed(c, K) => Ring(c)
        /\ (nx >= 2 /\ ny >= 2 => intersect_calls <= 2 * nx + 2 * ny - 4)

\* the cell reaches at most one pitch beyond its placement point
CubeWithinPitch ==
    /\ -dx <= cube.xmin /\ cube.xmax <= dx
    /\ -dy <= cube.ymin /\ cube.ymax <= dy

\* C10 amended: when margin_x >= 0, margin_y >= 0, the clip box's z range
\* contains the cell's and the cell reaches at most one pitch beyond its
\* placement point in x and y, only outer-ring cells are trimmed, so at
\* most 2*nx + 2*ny - 4 boolean intersections are made (nx, ny >= 2).
C10_PerimeterBound ==
    (ClipDone /\ margin_x >= 0 /\ margin_y >= 0 /\ ZCovers
       /\ CubeWithinPitch) =>
        /\ (nx >= 2 /\ ny >= 2 => intersect_calls <= 2 * nx + 2 * ny - 4)
        /\ LET K == KeptSets IN \A c \in Cells : Trimmed(c, K) => Ring(c)

\* the whole outer ring of a 4 x 4 lattice was trimmed, the interior kept
C10_Witness ==
    /\ ClipDone /\ margin_x = 0 /\ margin_y = 0 /\ ZCovers /\ CubeWithinPitch
    /\ nx = 4 /\ ny = 4
    /\ intersect_calls = 12
    /\ Len(ret[1]) = 16

\* the lattice's cells, unmodified, in loop order
WholeLattice ==
    [k \in 1 .. (nx * ny) |->
        Shape("inst", CellPlacement((k - 1) % nx, (k - 1) \div nx)[1],
                      CellPlacement((k - 1) % nx, (k - 1) \div nx)[2])]

\* C11: if every cell's box lies within the clip box, the clipper returns
\* exactly the lattice's cells (all of them, unmodified, in place) without a
\* boolean call; clipping that result again with the same clip box
\* returns the same cells from the same base, again without a boolean call.
C11_Idempotent ==
    ClipDone =>
        /\ (prev = <<>> /\ \A c \in Cells : Inside(c)) =>
              /\ ret[1] = WholeLattice
              /\ intersect_calls = 0
        /\ (prev # <<>> /\ prev[1] = WholeLattice) =>
              /\ ret[1] = prev[1]
              /\ cube = prev[2]
              /\ intersect_calls = 0

\* a staggered lattice that the clip box contains was clipped twice
C11_Witness ==
    /\ ClipDone /\ prev # <<>>
    /\ nx = 3 /\ ny = 2 /\ dx0 = 1
    /\ prev[1] = WholeLattice
    /\ ret[1] = prev[1]

\* ------------------------------------- pattern_assembly.py 159-325,
\* ------------------------------------- geometry_clip.py 222-267
\* The substrate and frame generators.  Here every coordinate of a solid,
\* the pattern's included, is in half grid steps, since the generators halve
\* the edge length and the thickness; the arguments stay in grid steps.
Part(name, bb) == [name |-> name, bb |-> bb]

Added(name) == \E k \in DOMAIN leaves : leaves[k].name = name

PartNamed(name) == leaves[CHOOSE k \in DOMAIN leaves : leaves[k].name = name]

\* assy.toCompound().BoundingBox().zmin and .zmax
assembly_zmin(a) ==
    CHOOSE z \in {a[1][k].bb.zmin : k \in DOMAIN a[1]} :
        \A k \in DOMAIN a[1] : z <= a[1][k].bb.zmin

assembly_zmax(a) ==
    CHOOSE z \in {a[1][k].bb.zmax : k \in DOMAIN a[1]} :
        \A k \in DOMAIN a[1] : z >= a[1][k].bb.zmax

\* add_substrate's own placement bounds (grid steps)
substrate_bounds(a_nx, a_ny, a_dx, a_dy, a_dx0) ==
    LET x_min == IF a_ny >= 2 THEN Min(0, a_dx0) ELSE 0
        x_max == IF a_ny >= 2
                 THEN Max((a_nx - 1) * a_dx, (a_nx - 1) * a_dx + a_dx0)
                 ELSE (a_nx - 1) * a_dx
    IN PatternBBox(x_min, x_max, 0, (a_ny - 1) * a_dy)

\* add_frame_around_pattern's own placement bounds (grid steps)
frame_bounds(a_nx, a_ny, a_dx, a_dy, a_dx0) ==
    LET x_min == IF a_ny >= 2 THEN Min(0, a_dx0) ELSE 0
        x_max == IF a_ny >= 2
                 THEN Max((a_nx - 1) * a_dx, (a_nx - 1) * a_dx + a_dx0)
                 ELSE (a_nx - 1) * a_dx
    IN PatternBBox(x_min, x_max, 0, (a_ny - 1) * a_dy)

\* bounds pb (grid steps) grown by half + pad on each side, in half steps
grown_noHalf(pb, a_edge, pad) ==
    PatternBBox(2 * pb.xmin - 2 * pad, 2 * pb.xmax + 2 * pad,
                2 * pb.ymin - 2 * pad, 2 * pb.ymax + 2 * pad)

grown(pb, a_edge, pad) ==
    PatternBBox(2 * pb.xmin - (a_edge + 2 * pad),
                2 * pb.xmax + (a_edge + 2 * pad),
                2 * pb.ymin - (a_edge + 2 * pad),
                2 * pb.ymax + (a_edge + 2 * pad))

\* the sanity test of the ring: TRUE when the frame is refused
no_ring_strict(inner_x, outer_x, inner_y, outer_y) ==
    inner_x > outer_x \/ inner_y > outer_y

no_ring(inner_x, outer_x, inner_y, outer_y) ==
    inner_x >= outer_x \/ inner_y >= outer_y

AuxOps ==
    {"add_substrate", "add_frame_around_pattern",
     "make_substrate_from_pattern_xy"}

AuxDone(name) == op = name /\ pc = "done"

AddSubstrate ==
    /\ op = "add_substrate" /\ pc = "call"
    /\ LET z_top == assembly_zmin(assy)
           out == grown(substrate_bounds(nx, ny, dx, dy, dx0),
                        edge_length_mm, margin)
           size_x == (out.xmax - out.xmin) \div 2
           size_y == (out.ymax - out.ymin) \div 2
           cx == (out.xmin + out.xmax) \div 2
           cy == (out.ymin + out.ymax) \div 2
           cz == z_top - thickness
           r == generate_rectangle(size_x, size_y, thickness)
       IN IF r.exc # "none"
          THEN /\ exc' = r.exc
               /\ UNCHANGED <<ret, assy>>
          ELSE /\ assy' = <<Append(leaves,
                                   Part("substrate",
                                        translate(r.val[1], cx, cy, cz)))>>
               /\ ret' = <<assy'>>
               /\ exc' = "none"
    /\ pc' = "done"
    /\ UNCHANGED <<op, lattice, block_rows, protos, b, clipArgs, clipVars,
                   auxVars, expVars>>

\* The frame is the outer box with the hole cut through it; the cutter is
\* taller than the frame, so only its XY bounds are kept.
FramePart(name, bb, hole) == [name |-> name, bb |-> bb, hole |-> hole]

AddFrame ==
    /\ op = "add_frame_around_pattern" /\ pc = "call"
    /\ LET z_pattern_min == assembly_zmin(assy) + 2 * thickness
           z_pattern_max == assembly_zmax(assy)
           frame_h2 == z_pattern_max - z_pattern_min
           pb == frame_bounds(nx, ny, dx, dy, dx0)
           out == grown(pb, edge_length_mm, margin)
           inn == grown(pb, edge_length_mm, clearance)
           outer_x == (out.xmax - out.xmin) \div 2
           outer_y == (out.ymax - out.ymin) \div 2
           inner_x == (inn.xmax - inn.xmin) \div 2
           inner_y == (inn.ymax - inn.ymin) \div 2
           cx == (out.xmin + out.xmax) \div 2
           cy == (out.ymin + out.ymax) \div 2
           cz == z_pattern_min + (frame_h2 \div 2)
           outer == generate_rectangle(outer_x, outer_y, frame_h2 \div 2)
       IN IF \/ thickness <= 0
             \/ margin < 0 \/ clearance < 0
             \/ nx <= 0 \/ ny <= 0
             \/ dx <= 0 \/ dy <= 0
             \/ edge_length_mm <= 0
             \/ frame_h2 <= 0
             \/ no_ring(inner_x, outer_x, inner_y, outer_y)
          THEN /\ exc' = "ValueError"
               /\ UNCHANGED <<ret, assy>>
          ELSE IF outer.exc # "none"
          THEN /\ exc' = outer.exc
               /\ UNCHANGED <<ret, assy>>
          ELSE /\ assy' = <<Append(leaves,
                                   FramePart("frame",
                                             translate(outer.val[1],
                                                       cx, cy, cz),
                                             inn))>>
               /\ ret' = <<assy'>>
               /\ exc' = "none"
    /\ pc' = "done"
    /\ UNCHANGED <<op, lattice, block_rows, protos, b, clipArgs, clipVars,
                   auxVars, expVars>>

\* the caller goes on to add the frame to the assembly that now holds the
\* substrate, with the thickness and margin it gave to add_substrate
CallFrame ==
    /\ AuxDone("add_substrate") /\ exc = "none"
    /\ op' = "add_frame_around_pattern"
    /\ pc' = "call"
    /\ ret' = <<>>
    /\ UNCHANGED <<lattice, exc, asmVars, clipArgs, clipVars, auxVars,
                   expVars>>

\* pattern.val().BoundingBox() is cube; h is thickness
MakeSubstrate ==
    /\ op = "make_substrate_from_pattern_xy" /\ pc = "call"
    /\ LET bb_xy == pattern_bounding_box_xy(nx, ny, dx, dy, dx0)
       IN IF thickness <= 0
          THEN exc' = "ValueError" /\ UNCHANGED ret
          ELSE IF bb_xy.exc # "none"
          THEN exc' = bb_xy.exc /\ UNCHANGED ret
          ELSE LET size_x == (bb_xy.val[1].xmax - bb_xy.val[1].xmin)
                                 + 2 * margin_x
                   size_y == (bb_xy.val[1].ymax - bb_xy.val[1].ymin)
                                 + 2 * margin_y
                   cx == bb_xy.val[1].xmin + bb_xy.val[1].xmax
                   cy == bb_xy.val[1].ymin + bb_xy.val[1].ymax
                   z_contact == cube.zmin
                   zc == z_contact - thickness + 2 * z_offset
                   r == generate_rectangle(size_x, size_y, thickness)
               IN IF size_x <= 0 \/ size_y <= 0
                  THEN exc' = "ValueError" /\ UNCHANGED ret
                  ELSE IF r.exc # "none"
                  THEN exc' = r.exc /\ UNCHANGED ret
                  ELSE /\ ret' = <<translate(r.val[1], cx, cy, zc)>>
                       /\ exc' = "none"
    /\ pc' = "done"
    /\ UNCHANGED <<op, lattice, asmVars, clipArgs, clipVars, auxVars,
                   expVars>>

\* the pattern's cell: edge 2, on the plane z = 0 or centred on it
CellBoxSet == { BoundBox(-2, 2, -2, 2, -2, 2), BoundBox(-2, 2, -2, 2, 0, 4) }

\* <<thickness, margin, clearance, edge_length_mm>>
GenArgSet ==
    { <<1, 1, 0, 2>>, <<1, 2, 1, 2>>, <<2, 1, 0, 4>>, <<1, 1, 0, 3>>,
      <<1, 1, 1, 2>>, <<1, 0, 0, 2>>, <<1, 1, 2, 2>>, <<3, 1, 0, 2>>,
      <<1, -1, 0, 4>>, <<1, 1, -1, 2>>, <<0, 1, 0, 2>>, <<-1, 1, 0, 2>>,
      <<1, 1, 0, 0>>, <<1, 2, 0, -2>> }

\* <<h, margin_x, margin_y, z_offset>>
SubArgSet ==
    { <<1, 0, 0, 0>>, <<2, 1, 1, 0>>, <<1, 1, 2, 1>>, <<1, 0, 0, -1>>,
      <<3, 2, 0, 1>>, <<1, -1, 0, 0>>, <<1, -1, -1, 0>>, <<0, 1, 1, 0>>,
      <<-1, 0, 0, 0>> }

InitAux ==
    /\ op \in AuxOps /\ pc = "call"
    /\ nx \in NxSet /\ ny \in NySet
    /\ dx \in PitchSet /\ dy \in PitchSet /\ dx0 \in Dx0Set
    /\ exc = "none" /\ ret = <<>>
    /\ block_rows = 0 /\ protos = <<>> /\ b = 0
    /\ cube \in CellBoxSet
    /\ IF op = "make_substrate_from_pattern_xy"
       THEN /\ assy = <<>>
            /\ \E a \in SubArgSet :
                  /\ thickness = a[1] /\ margin_x = a[2] /\ margin_y = a[3]
                  /\ z_offset = a[4]
            /\ margin = 0 /\ clearance = 0 /\ edge_length_mm = 0
       ELSE /\ assy = <<<<Part("pattern", cube)>>>>
            /\ \E a \in GenArgSet :
                  /\ thickness = a[1] /\ margin = a[2] /\ clearance = a[3]
                  /\ edge_length_mm = a[4]
            /\ margin_x = 0 /\ margin_y = 0 /\ z_offset = 0
    /\ z_height = 0 /\ z_center = 0
    /\ bbox_bb = <<>> /\ i = 0 /\ j = 0 /\ kept = <<>>
    /\ clipped_count = 0 /\ intersect_calls = 0 /\ prev = <<>>
    /\ ExpIdle

NextAux ==
    \/ AddSubstrate
    \/ CallFrame
    \/ AddFrame
    \/ MakeSubstrate

SpecAux == InitAux /\ [][NextAux]_vars

\* the XY bounds of a box
XYof(bb) == PatternBBox(bb.xmin, bb.xmax, bb.ymin, bb.ymax)

\* the footprint of the call's lattice arguments, or the error
Footprint == pattern_bounding_box_xy(nx, ny, dx, dy, dx0)

\* C12: whenever add_substrate or add_frame_around_pattern accepts its
\* lattice arguments, pattern_bounding_box_xy returns a PatternBBox for them
\* and the solid added is that PatternBBox grown by half the edge length plus
\* the margin; a frame added after the substrate has the substrate's XY box.
C12_Original ==
    /\ (AuxDone("add_substrate") /\ exc = "none") =>
          /\ Footprint.exc = "none"
          /\ XYof(PartNamed("substrate").bb)
                = grown(Footprint.val[1], edge_length_mm, margin)
    /\ (AuxDone("add_frame_around_pattern") /\ exc = "none") =>
          /\ Footprint.exc = "none"
          /\ XYof(PartNamed("frame").bb)
                = grown(Footprint.val[1], edge_length_mm, margin)
          /\ Added("substrate") =>
                XYof(PartNamed("frame").bb) = XYof(PartNamed("substrate").bb)

\* C12, for the lattices pattern_bounding_box_xy accepts
C12_ValidLattice == Footprint.exc = "none" => C12_Original

\* inner opening and outer box of the frame, as the footprint grown by
\* half the edge length plus clearance, and plus margin
Opening == grown(Footprint.val[1], edge_length_mm, clearance)
OuterBox == grown(Footprint.val[1], edge_length_mm, margin)

StrictlySmaller ==
    /\ Opening.xmax - Opening.xmin < OuterBox.xmax - OuterBox.xmin
    /\ Opening.ymax - Opening.ymin < OuterBox.ymax - OuterBox.ymin

\* C13: add_frame_around_pattern raises ValueError and adds no frame leaf
\* whenever the inner opening is not strictly smaller than the outer box in
\* both X and Y; when it succeeds the frame leaf's hole is the opening, its
\* box is the outer box, and the opening is strictly smaller on both axes.
C13_FrameRing ==
    AuxDone("add_frame_around_pattern") =>
        /\ (Footprint.exc = "none" /\ ~StrictlySmaller) =>
              /\ exc = "ValueError"
              /\ ~Added("frame")
        /\ exc = "none" =>
              /\ Footprint.exc = "none"
              /\ Added("frame")
              /\ PartNamed("frame").hole = Opening
              /\ XYof(PartNamed("frame").bb) = OuterBox
              /\ StrictlySmaller

\* every other argument is valid and the assembly holds the substrate, yet
\* the frame is refused because clearance leaves no ring
C13_Witness ==
    /\ AuxDone("add_frame_around_pattern")
    /\ Added("substrate")
    /\ thickness > 0 /\ edge_length_mm > 0
    /\ margin > 0 /\ clearance >= margin
    /\ Footprint.exc = "none" /\ ny >= 2 /\ dx0 # 0
    /\ exc = "ValueError"
    /\ ~Added("frame")

\* footprint grown by pad_x and pad_y (grid steps), in half steps
Expanded(pb, pad_x, pad_y) ==
    PatternBBox(2 * pb.xmin - 2 * pad_x, 2 * pb.xmax + 2 * pad_x,
                2 * pb.ymin - 2 * pad_y, 2 * pb.ymax + 2 * pad_y)

\* footprint grown by margin + edge_length_mm / 2, in half steps
HalfEdgeExpanded(pb) ==
    PatternBBox(2 * pb.xmin - 2 * margin - edge_length_mm,
                2 * pb.xmax + 2 * margin + edge_length_mm,
                2 * pb.ymin - 2 * margin - edge_length_mm,
                2 * pb.ymax + 2 * margin + edge_length_mm)

\* make_substrate_from_pattern_xy returned the solid the spec describes
MadeSubstrateOk ==
    (AuxDone("make_substrate_from_pattern_xy") /\ exc = "none") =>
        /\ Footprint.exc = "none"
        /\ XYof(ret[1]) = Expanded(Footprint.val[1], margin_x, margin_y)
        /\ ret[1].zmax - ret[1].zmin = 2 * thickness
        /\ ret[1].zmax = cube.zmin + 2 * z_offset

\* C14 as stated: both generators make a substrate that is the footprint
\* grown by exactly the margin, as thick as asked, with its top face at the
\* pattern's minimum z plus the z offset (add_substrate has none).
C14_Original ==
    /\ MadeSubstrateOk
    /\ (AuxDone("add_substrate") /\ exc = "none" /\ Footprint.exc = "none")
          => /\ XYof(PartNamed("substrate").bb)
                   = Expanded(Footprint.val[1], margin, margin)
             /\ PartNamed("substrate").bb.zmax
                   - PartNamed("substrate").bb.zmin = 2 * thickness
             /\ PartNamed("substrate").bb.zmax = cube.zmin

\* C14: make_substrate_from_pattern_xy grows the footprint by exactly
\* margin_x and margin_y and puts the top face at the pattern's minimum z
\* plus z_offset; add_substrate grows it by margin plus half the edge length
\* and puts the top face at the assembly's minimum z; both are as thick as
\* asked.
C14_SubstrateExtent ==
    /\ MadeSubstrateOk
    /\ (AuxDone("add_substrate") /\ exc = "none")
          => /\ PartNamed("substrate").bb.zmax
                   - PartNamed("substrate").bb.zmin = 2 * thickness
             /\ PartNamed("substrate").bb.zmax = cube.zmin
             /\ Footprint.exc = "none" =>
                   XYof(PartNamed("substrate").bb)
                      = HalfEdgeExpanded(Footprint.val[1])

\* a substrate was added under a staggered lattice of cells wider than 0
C14_Witness ==
    /\ AuxDone("add_substrate") /\ exc = "none"
    /\ Footprint.exc = "none" /\ ny >= 2 /\ dx0 # 0 /\ nx >= 2
    /\ edge_length_mm = 2 /\ margin = 2
    /\ PartNamed("substrate").bb.xmin = 2 * Footprint.val[1].xmin - 6
    /\ PartNamed("substrate").bb.xmax = 2 * Footprint.val[1].xmax + 6

\* the arguments of the call break a precondition of its operation
Violating ==
    \/ nx <= 0 \/ ny <= 0 \/ dx <= 0 \/ dy <= 0
    \/ thickness <= 0
    \/ /\ op \in {"add_substrate", "add_frame_around_pattern"}
       /\ (edge_length_mm <= 0 \/ margin < 0)
    \/ op = "add_frame_around_pattern" /\ clearance < 0
    \/ /\ op = "make_substrate_from_pattern_xy"
       /\ (margin_x < 0 \/ margin_y < 0)

\* C15 as stated, for the generators: a call whose arguments break a
\* precondition ends in ValueError, returns nothing and adds no leaf.
C15_Original ==
    \A name \in AuxOps :
        (AuxDone(name) /\ Violating) =>
            /\ exc = "ValueError"
            /\ name = "add_substrate" => ~Added("substrate")
            /\ name = "add_frame_around_pattern" => ~Added("frame")
            /\ name = "make_substrate_from_pattern_xy" => ret = <<>>

\* ------------------------------------------------- cad_export.py 4-124
\* A path is known by whether it is None, whether it has a final component
\* and by its suffix.  fs.target tells what lies at the path the exporter
\* settles on (for export_step, the path after a missing suffix was added).
Path(has_name, suffix) ==
    [none |-> FALSE, has_name |-> has_name, suffix |-> suffix]

\* str.lower() on the suffixes in use
lower(s) ==
    CASE s = ".STEP" -> ".step"
      [] s = ".Stp" -> ".stp"
      [] s = ".STL" -> ".stl"
      [] OTHER -> s

\* Path.exists() and Path.is_dir() of the destination
exists == fs.target # "absent"
is_dir == fs.target = "dir"

\* path.parent.mkdir(parents=True, exist_ok=True)
mkdir(f) ==
    IF f.parent THEN f
    ELSE [f EXCEPT !.parent = TRUE, !.made = f.made + 1]

\* the kernel's exporter writes the file at the destination
written(f) == [f EXCEPT !.target = "file", !.writes = f.writes + 1]

ExpDone(name) == op = name /\ pc = "done"

\* _validate_step_path, called by export_step
StepValidate ==
    /\ op = "export_step" /\ pc = "call"
    /\ IF filepath.none
       THEN exc' = "ValueError" /\ pc' = "done" /\ UNCHANGED <<filepath, fs>>
       ELSE IF ~filepath.has_name
       THEN exc' = "ValueError" /\ pc' = "done" /\ UNCHANGED <<filepath, fs>>
       ELSE IF filepath.suffix # ""
               /\ lower(filepath.suffix) \notin {".step", ".stp"}
       THEN exc' = "ValueError" /\ pc' = "done" /\ UNCHANGED <<filepath, fs>>
       ELSE IF exists /\ is_dir
       THEN exc' = "ValueError" /\ pc' = "done" /\ UNCHANGED <<filepath, fs>>
       ELSE /\ filepath' = IF filepath.suffix = ""
                           THEN Path(TRUE, ".step")
                           ELSE filepath
            /\ fs' = mkdir(fs)
            /\ IF exists /\ ~overwrite
               THEN exc' = "FileExistsError" /\ pc' = "done"
               ELSE exc' = "none" /\ pc' = "validated"
    /\ UNCHANGED <<op, lattice, ret, asmVars, clipArgs, clipVars, auxVars,
                   overwrite, obj>>

\* export_step after the path was validated
StepExport ==
    /\ op = "export_step" /\ pc = "validated"
    /\ IF obj \in {"Assembly", "Workplane"}
       THEN /\ fs' = written(fs)
            /\ ret' = <<filepath>>
            /\ exc' = "none"
       ELSE /\ exc' = "TypeError"
            /\ UNCHANGED <<fs, ret>>
    /\ pc' = "done"
    /\ UNCHANGED <<op, lattice, asmVars, clipArgs, clipVars, auxVars,
                   filepath, overwrite, obj>>

\* export_mesh up to the suffix test
MeshValidate ==
    /\ op = "export_mesh" /\ pc = "call"
    /\ IF exists /\ ~overwrite
       THEN exc' = "FileExistsError" /\ pc' = "done" /\ UNCHANGED fs
       ELSE /\ fs' = mkdir(fs)
            /\ IF lower(filepath.suffix) \notin {".stl", ".3mf"}
               THEN exc' = "ValueError" /\ pc' = "done"
               ELSE exc' = "none" /\ pc' = "validated"
    /\ UNCHANGED <<op, lattice, ret, asmVars, clipArgs, clipVars, auxVars,
                   filepath, overwrite, obj>>

\* export_mesh: toCompound and the kernel's exporter.  No file can be
\* written where a directory lies; whether the exporter then raises is the
\* kernel's matter, so both outcomes are allowed.
MeshExport ==
    /\ op = "export_mesh" /\ pc = "validated"
    /\ IF is_dir
       THEN /\ exc' \in {"none", "OSError"}
            /\ UNCHANGED <<fs, ret>>
       ELSE /\ fs' = written(fs)
            /\ ret' = <<filepath>>
            /\ exc' = "none"
    /\ pc' = "done"
    /\ UNCHANGED <<op, lattice, asmVars, clipArgs, clipVars, auxVars,
                   filepath, overwrite, obj>>

SuffixSet ==
    {"", ".step", ".stp", ".STEP", ".Stp", ".stl", ".3mf", ".STL", ".obj"}

\* a destination that exists has a parent; a path with no final component
\* is a directory
InitExport ==
    /\ op \in {"export_step", "export_mesh"} /\ pc = "call"
    /\ nx = 1 /\ ny = 1 /\ dx = 1 /\ dy = 1 /\ dx0 = 0
    /\ exc = "none" /\ ret = <<>>
    /\ block_rows = 0 /\ assy = <<>> /\ protos = <<>> /\ b = 0
    /\ ClipIdle /\ AuxIdle
    /\ overwrite \in BOOLEAN
    /\ obj \in IF op = "export_step"
               THEN {"Assembly", "Workplane", "Shape"}
               ELSE {"Assembly"}
    /\ \/ /\ op = "export_step"
          /\ filepath = NoPath
          /\ fs \in {NoFiles, [NoFiles EXCEPT !.parent = TRUE]}
       \/ /\ filepath = Path(FALSE, "")
          /\ fs = [NoFiles EXCEPT !.target = "dir", !.parent = TRUE]
       \/ /\ \E s \in SuffixSet : filepath = Path(TRUE, s)
          /\ \/ fs \in {NoFiles, [NoFiles EXCEPT !.parent = TRUE]}
             \/ \E t \in {"file", "dir"} :
                   fs = [NoFiles EXCEPT !.target = t, !.parent = TRUE]

NextExport ==
    \/ StepValidate
    \/ StepExport
    \/ MeshValidate
    \/ MeshExport

SpecExport == InitExport /\ [][NextExport]_vars

\* the error kinds of a refused export
Refused == exc \in {"ValueError", "FileExistsError"}

\* C16 as stated: an export refused with ValueError or FileExistsError has
\* made no directory and written no file, and an existing file at an
\* otherwise valid destination with overwrite = False ends both exporters in
\* FileExistsError.
C16_Original ==
    \A name \in {"export_step", "export_mesh"} :
        ExpDone(name) =>
            /\ Refused => fs.made = 0 /\ fs.writes = 0
            /\ ( /\ ~overwrite /\ fs.target = "file" /\ fs.writes = 0
                 /\ lower(filepath.suffix) \in
                        IF name = "export_step" THEN {".step", ".stp"}
                        ELSE {".stl", ".3mf"} )
                  => exc = "FileExistsError"

\* C16 for export_step alone
C16_StepOnly == ExpDone("export_step") => C16_Original

\* ------------------------------------------- order of the two outputs
\* one call of make_pattern_assembly or of clip_pattern_only_outer_cubes
InitLattice == InitAsm \/ InitClip

NextLattice ==
    \/ AsmValidate
    \/ AsmBlockEven
    \/ AsmBlockOdd
    \/ AsmAddBlock
    \/ AsmTail
    \/ AsmReturn
    \/ ClipStart
    \/ ClipCell
    \/ ClipReturn

SpecLattice == InitLattice /\ [][NextLattice]_vars

\* the cells <<column, row>> in ascending row, then ascending column
RowMajor == [k \in 1 .. (nx * ny) |-> <<(k - 1) % nx, (k - 1) \div nx>>]

Met(c) == ~Apart(c)

\* what the clipper's output must be, from the arguments alone
ExpectedKept ==
    LET S == SelectSeq(RowMajor, Met)
    IN [k \in 1 .. Len(S) |->
           Shape(IF Inside(S[k]) THEN "inst" ELSE "clipped",
                 Pos(S[k])[1], Pos(S[k])[2])]

\* the leaf names make_pattern_assembly must give, from the arguments alone
ExpectedNames ==
    [k \in 1 .. ((ny \div block_rows)
                    + (IF ny % block_rows # 0 THEN 1 ELSE 0)) |->
        IF k <= ny \div block_rows THEN <<"block", k - 1>> ELSE <<"tail">>]

\* the cells of a compound go along a row, then to the start of the next
RowThenColumn(solids) ==
    \A k \in 1 .. (Len(solids) - 1) :
        IF k % nx # 0
        THEN /\ solids[k + 1][2] = solids[k][2]
             /\ solids[k + 1][1] = solids[k][1] + dx
        ELSE /\ solids[k + 1][2] = solids[k][2] + dy
             /\ solids[k + 1][1] \in {solids[1][1], solids[1][1] + dx0,
                                     solids[1][1] - dx0}

\* C17: the order of the output is a function of the arguments: the leaves
\* of make_pattern_assembly are block_0, block_1, ... in ascending index
\* with the remainder leaf last, at ascending y, the cells of each block in
\* ascending row then column; clip_pattern_only_outer_cubes returns the
\* cells its clip box meets in ascending row then column, a trimmed cell in
\* the place of the cell it replaces.
C17_DeterministicOrder ==
    /\ AsmDone =>
          /\ [k \in DOMAIN ret[1] |-> ret[1][k].name] = ExpectedNames
          /\ \A k \in 1 .. (Len(ret[1]) - 1) :
                ret[1][k].loc.t[2] < ret[1][k + 1].loc.t[2]
          /\ \A k \in DOMAIN ret[1] :
                RowThenColumn(protos[ret[1][k].proto].solids)
    /\ ClipDone => ret[1] = ExpectedKept

\* of a staggered lattice some cells were dropped, and a trimmed cell was
\* returned between two unmodified ones
C17_Witness ==
    /\ ClipDone /\ dx0 # 0
    /\ Len(ret[1]) < nx * ny
    /\ \E k \in 2 .. (Len(ret[1]) - 1) :
          /\ ret[1][k].kind = "clipped"
          /\ ret[1][k - 1].kind = "inst"
          /\ ret[1][k + 1].kind = "inst"

\* the base cell's box contains the origin
CubeHoldsOrigin ==
    /\ cube.xmin <= 0 /\ 0 <= cube.xmax
    /\ cube.ymin <= 0 /\ 0 <= cube.ymax
    /\ cube.zmin <= 0 /\ 0 <= cube.zmax

\* the clip box's z range and the cell's share a point
ZOverlaps ==
    /\ 2 * z_center - z_height <= 2 * cube.zmax
    /\ 2 * cube.zmin <= 2 * z_center + z_height

\* C18: with margin_x >= 0 and margin_y >= 0, a base cell whose box contains
\* the origin and a clip box whose z range overlaps the cell's, no cell is
\* apart from the clip box, so none is dropped: each of the nx*ny cells is
\* kept unmodified or trimmed and the output has nx*ny entries.
C18_NoCellDropped ==
    (ClipDone /\ margin_x >= 0 /\ margin_y >= 0 /\ CubeHoldsOrigin
        /\ ZOverlaps) =>
        LET K == KeptSets
        IN /\ Len(ret[1]) = nx * ny
           /\ \A c \in Cells :
                 /\ ~Apart(c)
                 /\ Unmodified(c, K) \/ Trimmed(c, K)

\* the clip box only touches the cells' top face and the lattice is
\* staggered, and every cell was kept, trimmed
C18_Witness ==
    /\ ClipDone /\ margin_x = 0 /\ margin_y = 0 /\ CubeHoldsOrigin
    /\ z_height = 2 /\ z_center = 2
    /\ nx = 3 /\ ny = 3 /\ dx0 = 1
    /\ Len(ret[1]) = 9
    /\ clipped_count = 9

====
